---- MODULE Spec2Model ----
(***************************************************************************)
(* Model of the tic-tac-toe program: the engine of src/game.rs (struct     *)
(* Game and its methods) and the console program of src/main.rs (main,     *)
(* prompt_move, parse_move, read_line).  The state is the three fields of  *)
(* Game, the value returned by the last call with its arguments, two       *)
(* history variables recording the successful moves, and the position and  *)
(* the last input and output of the console program.                       *)
(*                                                                         *)
(* Spec        any sequence of make_move calls on one Game                 *)
(* SpecAcc     the same with the accessors of Game interleaved             *)
(* SpecParse   the first line typed at a new game, over all short lines    *)
(* SpecConsole whole runs of main over a small set of lines                *)
(***************************************************************************)
EXTENDS Integers, Sequences, FiniteSets, TLC

\* ---------------------------------------------------------------- bounds
\* make_move is called with row and col drawn from 0..MaxCoord; 3 and above
\* are out of range for the 3x3 board.
MaxCoord == 4

Coord == 0..MaxCoord

\* The lines given to parse_move have up to MaxLineLen bytes before the
\* newline.
MaxLineLen == 3

\* ------------------------------------------------------------- constants
BOARD_SIZE == 3

\* enum Piece
Piece_X == "Piece::X"
Piece_O == "Piece::O"
Piece == {Piece_X, Piece_O}

\* Option::None, for Tile = Option<Piece> and for Option<Winner>
None == "None"

\* type Tile = Option<Piece>
Tile == Piece \cup {None}

\* enum Winner
Winner_X == "Winner::X"
Winner_O == "Winner::O"
Winner_Tie == "Winner::Tie"
Winner == {Winner_X, Winner_O, Winner_Tie}

\* Indices of a [_; BOARD_SIZE] array
Idx == 0..(BOARD_SIZE - 1)

\* type Tiles = [[Tile; BOARD_SIZE]; BOARD_SIZE]
Tiles == [Idx -> [Idx -> Tile]]

\* A three-element array literal [a, b, c]
Arr3(a, b, c) == [i \in Idx |-> IF i = 0 THEN a ELSE IF i = 1 THEN b ELSE c]

\* enum MoveError and the Ok(()) of Result<(), MoveError>
Ok == [kind |-> "Ok"]
GameAlreadyOver == [kind |-> "GameAlreadyOver"]
InvalidPosition(row, col) == [kind |-> "InvalidPosition", row |-> row, col |-> col]
TileNotEmpty(other_piece, row, col) ==
    [kind |-> "TileNotEmpty", other_piece |-> other_piece, row |-> row, col |-> col]

\* No make_move call has returned yet
NoCall == [kind |-> "NoCall"]

\* The call did not return: a panic!, a failed assert!, expect or
\* unreachable!, an index or slice out of range
Panic == [kind |-> "Panic"]

VARIABLES
    tiles,          \* Game.tiles
    current_piece,  \* Game.current_piece
    winner,         \* Game.winner
    ret,            \* the value returned by the last make_move call
    args,           \* <<row, col>> of the last make_move call
    okCount,        \* history: number of make_move calls that returned Ok
    placed          \* history: the pieces written by the successful calls

\* The console program of src/main.rs around the game
VARIABLES
    pc,             \* where main is: "prompt", "finished", "exited", "panicked"
    stdin_line,     \* the bytes the last read of stdin delivered (<<>>: end of input)
    line,           \* the String the last read_line call returned
    parsed,         \* the value the last parse_move call returned
    out,            \* the last message written, the board and the prompt aside
    exit_code       \* the exit code of the process, None while it runs

game == <<tiles, current_piece, winner>>
engine == <<tiles, current_piece, winner, ret, args, okCount, placed>>
console == <<pc, stdin_line, line, parsed, out, exit_code>>
vars == <<tiles, current_piece, winner, ret, args, okCount, placed,
          pc, stdin_line, line, parsed, out, exit_code>>

\* ------------------------------------------------------------ Piece::other
\* other returning the piece it was given
other_same(self) == self

other(self) == IF self = Piece_X THEN Piece_O ELSE Piece_X

\* Option::or_else: the value itself when present, else the alternative
or_else(opt, alt) == IF opt # None THEN opt ELSE alt

\* check_winner asking for three occupied tiles instead of three equal ones
check_winner_occupied(row) ==
    IF row[0] # None /\ row[1] # None /\ row[2] # None
    THEN CASE row[0] = Piece_X -> Winner_X
           [] row[0] = Piece_O -> Winner_O
           [] row[0] = None -> None
    ELSE None

\* check_winner naming the other piece as the winner of a line
check_winner_swapped(row) ==
    IF row[0] = row[1] /\ row[1] = row[2]
    THEN CASE row[0] = Piece_X -> Winner_O
           [] row[0] = Piece_O -> Winner_X
           [] row[0] = None -> None
    ELSE None

\* check_winner, the function nested in update_winner
check_winner(row) ==
    IF row[0] = row[1] /\ row[1] = row[2]
    THEN CASE row[0] = Piece_X -> Winner_X
           [] row[0] = Piece_O -> Winner_O
           [] row[0] = None -> None
    ELSE None

\* The four candidate lines update_winner builds around the pivot (row, col)
tiles_row(t, row) == t[row]

\* tiles_col with the two indices of each tile exchanged
tiles_col_as_row(t, col) == Arr3(t[col][0], t[col][1], t[col][2])

tiles_col(t, col) == Arr3(t[0][col], t[1][col], t[2][col])

tiles_diagonal_1(t, row, col) ==
    IF row = col
    THEN Arr3(t[0][0], t[1][1], t[2][2])
    ELSE Arr3(None, None, None)

\* tiles_diagonal_2 with the "- 1" of its test left out
tiles_diagonal_2_off_by_one(t, row, col) ==
    IF (BOARD_SIZE - row) = col
    THEN Arr3(t[0][2], t[1][1], t[2][0])
    ELSE Arr3(None, None, None)

tiles_diagonal_2(t, row, col) ==
    IF (BOARD_SIZE - row - 1) = col
    THEN Arr3(t[0][2], t[1][1], t[2][0])
    ELSE Arr3(None, None, None)

\* all_some asking each row for one Some tile (any in place of the inner all)
all_some_any_in_row(t) == \A i \in Idx : \E j \in Idx : t[i][j] # None

\* The closing test of update_winner: every tile is Some
all_some(t) == \A i \in Idx : \A j \in Idx : t[i][j] # None

\* update_winner without its closing full-board test
update_winner_no_tie(t, w, row, col) ==
    or_else(or_else(or_else(or_else(w,
        check_winner(tiles_row(t, row))),
        check_winner(tiles_col(t, col))),
        check_winner(tiles_diagonal_1(t, row, col))),
        check_winner(tiles_diagonal_2(t, row, col)))

\* update_winner making the full-board test before the four line tests
update_winner_tie_first(t, w, row, col) ==
    LET w1 == or_else(w, IF all_some(t) THEN Winner_Tie ELSE None)
    IN  or_else(or_else(or_else(or_else(w1,
            check_winner(tiles_row(t, row))),
            check_winner(tiles_col(t, col))),
            check_winner(tiles_diagonal_1(t, row, col))),
            check_winner(tiles_diagonal_2(t, row, col)))

\* update_winner starting its chain from None instead of self.winner
update_winner_fresh(t, w, row, col) ==
    LET w1 == or_else(or_else(or_else(or_else(None,
                  check_winner(tiles_row(t, row))),
                  check_winner(tiles_col(t, col))),
                  check_winner(tiles_diagonal_1(t, row, col))),
                  check_winner(tiles_diagonal_2(t, row, col)))
    IN  or_else(w1, IF all_some(t) THEN Winner_Tie ELSE None)

\* Game::update_winner: the new value of self.winner, from the board t (the
\* move already placed), the old winner w and the pivot (row, col)
update_winner(t, w, row, col) ==
    LET w1 == or_else(or_else(or_else(or_else(w,
                  check_winner(tiles_row(t, row))),
                  check_winner(tiles_col(t, col))),
                  check_winner(tiles_diagonal_1(t, row, col))),
                  check_winner(tiles_diagonal_2(t, row, col)))
    IN  or_else(w1, IF all_some(t) THEN Winner_Tie ELSE None)

\* is_finished testing is_none() instead of is_some()
is_finished_inverted(w) == w = None

\* Game::is_finished
is_finished(w) == w # None

\* new giving the first move to O
new_O_first == [tiles |-> [i \in Idx |-> [j \in Idx |-> None]],
                current_piece |-> Piece_O,
                winner |-> None]

\* Game::new
new == [tiles |-> [i \in Idx |-> [j \in Idx |-> None]],
        current_piece |-> Piece_X,
        winner |-> None]

Init ==
    /\ tiles = new.tiles
    /\ current_piece = new.current_piece
    /\ winner = new.winner
    /\ ret = NoCall
    /\ args = <<0, 0>>
    /\ okCount = 0
    /\ placed = <<>>
    /\ pc = "prompt"
    /\ stdin_line = <<>>
    /\ line = <<>>
    /\ parsed = NoCall
    /\ out = [kind |-> "none"]
    /\ exit_code = None

\* A make_move call that returns Err(e), or panics before its first write:
\* nothing of the game is written
Fail(e) ==
    /\ ret' = e
    /\ UNCHANGED <<tiles, current_piece, winner, okCount, placed>>

\* The bounds check of the index expression self.tiles[row][col]
in_bounds(row, col) == row \in Idx /\ col \in Idx

\* The places where update_winner(row, col) panics: the index expressions
\* self.tiles[row] and self.tiles[_][col], the size assertion, and the usize
\* subtraction rows - row - 1 going below zero
update_winner_panics(row, col) ==
    \/ ~in_bounds(row, col)
    \/ ~(BOARD_SIZE = 3 /\ BOARD_SIZE = 3)
    \/ BOARD_SIZE - row - 1 < 0

\* make_move with the is_finished test made last instead of first
make_move_position_first(row, col) ==
    /\ args' = <<row, col>>
    /\ IF row >= BOARD_SIZE \/ col >= BOARD_SIZE
       THEN Fail(InvalidPosition(row, col))
       ELSE IF ~in_bounds(row, col)
       THEN Fail(Panic)
       ELSE IF tiles[row][col] # None
       THEN Fail(TileNotEmpty(tiles[row][col], row, col))
       ELSE IF is_finished(winner)
       THEN Fail(GameAlreadyOver)
       ELSE LET t == [tiles EXCEPT ![row][col] = current_piece]
            IN  /\ tiles' = t
                /\ current_piece' = other(current_piece)
                /\ placed' = Append(placed, current_piece)
                /\ IF update_winner_panics(row, col)
                   THEN ret' = Panic /\ UNCHANGED <<winner, okCount>>
                   ELSE /\ winner' = update_winner(t, winner, row, col)
                        /\ ret' = Ok
                        /\ okCount' = okCount + 1

\* make_move writing the tile with row and col exchanged
make_move_transposed(row, col) ==
    /\ args' = <<row, col>>
    /\ IF is_finished(winner)
       THEN Fail(GameAlreadyOver)
       ELSE IF row >= BOARD_SIZE \/ col >= BOARD_SIZE
       THEN Fail(InvalidPosition(row, col))
       ELSE IF ~in_bounds(row, col)
       THEN Fail(Panic)
       ELSE IF tiles[row][col] # None
       THEN Fail(TileNotEmpty(tiles[row][col], row, col))
       ELSE LET t == [tiles EXCEPT ![col][row] = current_piece]
            IN  /\ tiles' = t
                /\ current_piece' = other(current_piece)
                /\ placed' = Append(placed, current_piece)
                /\ IF update_winner_panics(row, col)
                   THEN ret' = Panic /\ UNCHANGED <<winner, okCount>>
                   ELSE /\ winner' = update_winner(t, winner, row, col)
                        /\ ret' = Ok
                        /\ okCount' = okCount + 1

\* make_move reporting the piece to move in TileNotEmpty
make_move_current_piece(row, col) ==
    /\ args' = <<row, col>>
    /\ IF is_finished(winner)
       THEN Fail(GameAlreadyOver)
       ELSE IF row >= BOARD_SIZE \/ col >= BOARD_SIZE
       THEN Fail(InvalidPosition(row, col))
       ELSE IF ~in_bounds(row, col)
       THEN Fail(Panic)
       ELSE IF tiles[row][col] # None
       THEN Fail(TileNotEmpty(current_piece, row, col))
       ELSE LET t == [tiles EXCEPT ![row][col] = current_piece]
            IN  /\ tiles' = t
                /\ current_piece' = other(current_piece)
                /\ placed' = Append(placed, current_piece)
                /\ IF update_winner_panics(row, col)
                   THEN ret' = Panic /\ UNCHANGED <<winner, okCount>>
                   ELSE /\ winner' = update_winner(t, winner, row, col)
                        /\ ret' = Ok
                        /\ okCount' = okCount + 1

\* make_move reporting col and row exchanged in InvalidPosition
make_move_swapped_position(row, col) ==
    /\ args' = <<row, col>>
    /\ IF is_finished(winner)
       THEN Fail(GameAlreadyOver)
       ELSE IF row >= BOARD_SIZE \/ col >= BOARD_SIZE
       THEN Fail(InvalidPosition(col, row))
       ELSE IF ~in_bounds(row, col)
       THEN Fail(Panic)
       ELSE IF tiles[row][col] # None
       THEN Fail(TileNotEmpty(tiles[row][col], row, col))
       ELSE LET t == [tiles EXCEPT ![row][col] = current_piece]
            IN  /\ tiles' = t
                /\ current_piece' = other(current_piece)
                /\ placed' = Append(placed, current_piece)
                /\ IF update_winner_panics(row, col)
                   THEN ret' = Panic /\ UNCHANGED <<winner, okCount>>
                   ELSE /\ winner' = update_winner(t, winner, row, col)
                        /\ ret' = Ok
                        /\ okCount' = okCount + 1

\* make_move advancing the current piece before the tile is validated
make_move_flip_on_error(row, col) ==
    /\ args' = <<row, col>>
    /\ IF is_finished(winner)
       THEN Fail(GameAlreadyOver)
       ELSE IF row >= BOARD_SIZE \/ col >= BOARD_SIZE
       THEN Fail(InvalidPosition(row, col))
       ELSE IF ~in_bounds(row, col)
       THEN Fail(Panic)
       ELSE IF tiles[row][col] # None
       THEN /\ ret' = TileNotEmpty(tiles[row][col], row, col)
            /\ current_piece' = other(current_piece)
            /\ UNCHANGED <<tiles, winner, okCount, placed>>
       ELSE LET t == [tiles EXCEPT ![row][col] = current_piece]
            IN  /\ tiles' = t
                /\ current_piece' = other(current_piece)
                /\ placed' = Append(placed, current_piece)
                /\ IF update_winner_panics(row, col)
                   THEN ret' = Panic /\ UNCHANGED <<winner, okCount>>
                   ELSE /\ winner' = update_winner(t, winner, row, col)
                        /\ ret' = Ok
                        /\ okCount' = okCount + 1

\* make_move without the TileNotEmpty test
make_move_overwrite(row, col) ==
    /\ args' = <<row, col>>
    /\ IF is_finished(winner)
       THEN Fail(GameAlreadyOver)
       ELSE IF row >= BOARD_SIZE \/ col >= BOARD_SIZE
       THEN Fail(InvalidPosition(row, col))
       ELSE IF ~in_bounds(row, col)
       THEN Fail(Panic)
       ELSE IF FALSE
       THEN Fail(TileNotEmpty(tiles[row][col], row, col))
       ELSE LET t == [tiles EXCEPT ![row][col] = current_piece]
            IN  /\ tiles' = t
                /\ current_piece' = other(current_piece)
                /\ placed' = Append(placed, current_piece)
                /\ IF update_winner_panics(row, col)
                   THEN ret' = Panic /\ UNCHANGED <<winner, okCount>>
                   ELSE /\ winner' = update_winner(t, winner, row, col)
                        /\ ret' = Ok
                        /\ okCount' = okCount + 1

\* make_move testing the range with > instead of >=
make_move_off_by_one(row, col) ==
    /\ args' = <<row, col>>
    /\ IF is_finished(winner)
       THEN Fail(GameAlreadyOver)
       ELSE IF row > BOARD_SIZE \/ col > BOARD_SIZE
       THEN Fail(InvalidPosition(row, col))
       ELSE IF ~in_bounds(row, col)
       THEN Fail(Panic)
       ELSE IF tiles[row][col] # None
       THEN Fail(TileNotEmpty(tiles[row][col], row, col))
       ELSE LET t == [tiles EXCEPT ![row][col] = current_piece]
            IN  /\ tiles' = t
                /\ current_piece' = other(current_piece)
                /\ placed' = Append(placed, current_piece)
                /\ IF update_winner_panics(row, col)
                   THEN ret' = Panic /\ UNCHANGED <<winner, okCount>>
                   ELSE /\ winner' = update_winner(t, winner, row, col)
                        /\ ret' = Ok
                        /\ okCount' = okCount + 1

\* Game::make_move
make_move(row, col) ==
    /\ args' = <<row, col>>
    /\ IF is_finished(winner)
       THEN Fail(GameAlreadyOver)
       ELSE IF row >= BOARD_SIZE \/ col >= BOARD_SIZE
       THEN Fail(InvalidPosition(row, col))
       ELSE IF ~in_bounds(row, col)
       THEN Fail(Panic)
       ELSE IF tiles[row][col] # None
       THEN Fail(TileNotEmpty(tiles[row][col], row, col))
       ELSE LET t == [tiles EXCEPT ![row][col] = current_piece]
            IN  /\ tiles' = t
                /\ current_piece' = other(current_piece)
                /\ placed' = Append(placed, current_piece)
                /\ IF update_winner_panics(row, col)
                   THEN ret' = Panic /\ UNCHANGED <<winner, okCount>>
                   ELSE /\ winner' = update_winner(t, winner, row, col)
                        /\ ret' = Ok
                        /\ okCount' = okCount + 1

\* Any sequence of make_move calls on one Game
Next ==
    /\ \E row \in Coord : \E col \in Coord : make_move(row, col)
    /\ UNCHANGED console

Spec == Init /\ [][Next]_vars

\* The accessors of Game: each returns its value and writes nothing
call_is_finished ==
    /\ ret' = [kind |-> "is_finished", value |-> is_finished(winner)]
    /\ UNCHANGED <<tiles, current_piece, winner, args, okCount, placed>>
    /\ UNCHANGED console

call_winner ==
    /\ ret' = [kind |-> "winner", value |-> winner]
    /\ UNCHANGED <<tiles, current_piece, winner, args, okCount, placed>>
    /\ UNCHANGED console

call_current_piece ==
    /\ ret' = [kind |-> "current_piece", value |-> current_piece]
    /\ UNCHANGED <<tiles, current_piece, winner, args, okCount, placed>>
    /\ UNCHANGED console

call_tiles ==
    /\ ret' = [kind |-> "tiles", value |-> tiles]
    /\ UNCHANGED <<tiles, current_piece, winner, args, okCount, placed>>
    /\ UNCHANGED console

\* Any sequence of calls of the public methods of Game
NextAcc ==
    \/ Next
    \/ call_is_finished
    \/ call_winner
    \/ call_current_piece
    \/ call_tiles

SpecAcc == Init /\ [][NextAcc]_vars

\* ------------------------------------------------------------ src/main.rs
\* Strings are sequences of bytes (UTF-8), as str::len and the slices
\* &input[0..1], &input[1..2] of parse_move see them.

\* The byte of an ASCII character, as in a literal like b'A'
byte(c) ==
    CASE c = "0" -> 48 [] c = "1" -> 49 [] c = "2" -> 50 [] c = "3" -> 51
      [] c = "4" -> 52
      [] c = "A" -> 65 [] c = "B" -> 66 [] c = "C" -> 67 [] c = "D" -> 68
      [] c = "a" -> 97 [] c = "b" -> 98 [] c = "c" -> 99 [] c = "d" -> 100
      [] c = " " -> 32 [] c = "\n" -> 10

\* A string literal, from its characters
str(cs) == [i \in 1..Len(cs) |-> byte(cs[i])]

\* UTF-8 continuation bytes
Continuation == 128..191

\* str::is_char_boundary at byte index i (0-based)
is_char_boundary(s, i) ==
    \/ i = 0
    \/ i = Len(s)
    \/ i < Len(s) /\ s[i + 1] \notin Continuation

\* The second byte a UTF-8 lead byte admits: E0 excludes the overlong forms,
\* ED the surrogates, F0 the overlong forms, F4 the values above U+10FFFF
second_byte(first) ==
    CASE first = 224 -> 160..191
      [] first = 237 -> 128..159
      [] first = 240 -> 144..191
      [] first = 244 -> 128..143
      [] OTHER -> Continuation

\* The UTF-8 validation Stdin::read_line makes of the bytes it read
RECURSIVE valid_utf8(_)
valid_utf8(s) ==
    LET n == Len(s)
        cont(i) == i <= n /\ s[i] \in Continuation
        second == n >= 2 /\ s[2] \in second_byte(s[1])
        rest(k) == valid_utf8(SubSeq(s, k + 1, n))
    IN  IF n = 0 THEN TRUE
        ELSE IF s[1] < 128 THEN rest(1)
        ELSE IF s[1] \in 194..223 THEN cont(2) /\ rest(2)
        ELSE IF s[1] \in 224..239 THEN second /\ cont(3) /\ rest(3)
        ELSE IF s[1] \in 240..244 THEN second /\ cont(3) /\ cont(4) /\ rest(4)
        ELSE FALSE

\* char::is_whitespace on the one-byte characters: U+0009..U+000D, U+0020
Whitespace == {9, 10, 11, 12, 13, 32}

\* char::is_whitespace on the two-byte characters: U+0085, U+00A0
Whitespace2 == {<<194, 133>>, <<194, 160>>}

\* char::is_whitespace on the three-byte characters: U+1680, U+2000..U+200A,
\* U+2028, U+2029, U+202F, U+205F, U+3000
Whitespace3 ==
    {<<225, 154, 128>>}
        \cup {<<226, 128, b>> : b \in (128..138) \cup {168, 169, 175}}
        \cup {<<226, 129, 159>>, <<227, 128, 128>>}

\* str::trim_right: the string without its trailing whitespace characters
RECURSIVE trim_right(_)
trim_right(s) ==
    LET n == Len(s)
    IN  IF n >= 1 /\ s[n] \in Whitespace
        THEN trim_right(SubSeq(s, 1, n - 1))
        ELSE IF n >= 2 /\ SubSeq(s, n - 1, n) \in Whitespace2
        THEN trim_right(SubSeq(s, 1, n - 2))
        ELSE IF n >= 3 /\ SubSeq(s, n - 2, n) \in Whitespace3
        THEN trim_right(SubSeq(s, 1, n - 3))
        ELSE s

\* read_line on the bytes raw that stdin delivers (<<>> at end of input):
\* the String returned, the exit(0), or the panic of expect()
read_line(raw) ==
    IF ~valid_utf8(raw) THEN Panic
    ELSE IF raw = <<>> THEN [kind |-> "Exit", code |-> 0]
    ELSE [kind |-> "Line", s |-> trim_right(raw)]

\* struct InvalidMove inside the Err of parse_move
InvalidMove(invalid_str) == [kind |-> "Err", invalid |-> invalid_str]

\* parse_move keeping the row as typed, 1 to 3
parse_move_one_based(input) ==
    IF Len(input) # 2
    THEN InvalidMove(input)
    ELSE IF ~is_char_boundary(input, 0) \/ ~is_char_boundary(input, 1)
    THEN Panic
    ELSE LET r == SubSeq(input, 1, 1)
             row == CASE r = str(<<"1">>) -> 1
                      [] r = str(<<"2">>) -> 2
                      [] r = str(<<"3">>) -> 3
         IN  IF r \notin {str(<<"1">>), str(<<"2">>), str(<<"3">>)}
             THEN InvalidMove(input)
             ELSE IF ~is_char_boundary(input, 1) \/ ~is_char_boundary(input, 2)
             THEN Panic
             ELSE LET invalid == SubSeq(input, 2, 2)
                      col == CASE invalid \in {str(<<"A">>), str(<<"a">>)} -> 0
                               [] invalid \in {str(<<"B">>), str(<<"b">>)} -> 1
                               [] invalid \in {str(<<"C">>), str(<<"c">>)} -> 2
                  IN  IF invalid \notin {str(<<"A">>), str(<<"a">>), str(<<"B">>),
                                         str(<<"b">>), str(<<"C">>), str(<<"c">>)}
                      THEN InvalidMove(invalid)
                      ELSE [kind |-> "Ok", row |-> row, col |-> col]

\* parse_move
parse_move(input) ==
    IF Len(input) # 2
    THEN InvalidMove(input)
    ELSE IF ~is_char_boundary(input, 0) \/ ~is_char_boundary(input, 1)
    THEN Panic
    ELSE LET r == SubSeq(input, 1, 1)
             row == CASE r = str(<<"1">>) -> 0
                      [] r = str(<<"2">>) -> 1
                      [] r = str(<<"3">>) -> 2
         IN  IF r \notin {str(<<"1">>), str(<<"2">>), str(<<"3">>)}
             THEN InvalidMove(input)
             ELSE IF ~is_char_boundary(input, 1) \/ ~is_char_boundary(input, 2)
             THEN Panic
             ELSE LET invalid == SubSeq(input, 2, 2)
                      col == CASE invalid \in {str(<<"A">>), str(<<"a">>)} -> 0
                               [] invalid \in {str(<<"B">>), str(<<"b">>)} -> 1
                               [] invalid \in {str(<<"C">>), str(<<"c">>)} -> 2
                  IN  IF invalid \notin {str(<<"A">>), str(<<"a">>), str(<<"B">>),
                                         str(<<"b">>), str(<<"C">>), str(<<"c">>)}
                      THEN InvalidMove(invalid)
                      ELSE [kind |-> "Ok", row |-> row, col |-> col]

\* The decimal digits of n, as {} formats a usize
RECURSIVE decimal(_)
decimal(n) ==
    IF n < 10 THEN <<48 + n>> ELSE decimal(n \div 10) \o <<48 + (n % 10)>>

\* format_position printing the row as stored, from 0
format_position_zero_based(row, col) ==
    decimal(row) \o <<byte("A") + (col % 256)>>

\* The position main prints for TileNotEmpty: row + 1, then the character
\* (b'A' + col as u8) as char
format_position(row, col) == decimal(row + 1) \o <<byte("A") + (col % 256)>>

\* The name main prints for a piece
piece_name(p) == IF p = Piece_X THEN "x" ELSE "o"

\* The last line main prints
result_text(w) ==
    CASE w = Winner_X -> "x wins!"
      [] w = Winner_O -> "o wins!"
      [] w = Winner_Tie -> "Tie!"

\* The process dies of a panic raised at the place named
panic_at(place) ==
    /\ pc' = "panicked"
    /\ exit_code' = 101
    /\ out' = [kind |-> "panic", at |-> place]

\* main after game.make_move(row, col) has run: the match on its result,
\* then the test of the while loop and, out of the loop, the result
after_make_move ==
    IF ret'.kind = "Panic" THEN panic_at("make_move")
    ELSE IF ret'.kind = "GameAlreadyOver" THEN panic_at("unreachable GameAlreadyOver")
    ELSE IF ret'.kind = "InvalidPosition" THEN panic_at("unreachable InvalidPosition")
    ELSE IF ~is_finished(winner')
    THEN /\ pc' = "prompt"
         /\ exit_code' = None
         /\ out' = IF ret'.kind = "TileNotEmpty"
                   THEN [kind |-> "tile_not_empty",
                         position |-> format_position(ret'.row, ret'.col),
                         piece |-> piece_name(ret'.other_piece)]
                   ELSE [kind |-> "none"]
    ELSE IF winner' = None THEN panic_at("expect winner")
    ELSE /\ pc' = "finished"
         /\ exit_code' = 0
         /\ out' = [kind |-> "result", tiles |-> tiles', text |-> result_text(winner')]

\* One pass of main from a prompt: prompt_move reads the bytes raw from
\* stdin and parses them; a line that parses goes to make_move
main_step(raw) ==
    /\ pc = "prompt"
    /\ stdin_line' = raw
    /\ LET rl == read_line(raw)
       IN  IF rl.kind = "Panic"
           THEN panic_at("read_line") /\ UNCHANGED <<engine, line, parsed>>
           ELSE IF rl.kind = "Exit"
           THEN /\ pc' = "exited"
                /\ exit_code' = rl.code
                /\ UNCHANGED <<engine, line, parsed, out>>
           ELSE LET pm == parse_move(rl.s)
                IN  /\ line' = rl.s
                    /\ parsed' = pm
                    /\ IF pm.kind = "Panic"
                       THEN panic_at("parse_move") /\ UNCHANGED engine
                       ELSE IF pm.kind = "Err"
                       THEN /\ out' = [kind |-> "invalid_move", text |-> pm.invalid]
                            /\ UNCHANGED <<engine, pc, exit_code>>
                       ELSE /\ make_move(pm.row, pm.col)
                            /\ after_make_move

\* The bytes the lines fed to parse_move are made of: the characters of the
\* move tokens and their neighbours, a space, and the two bytes of U+00E9
Alphabet ==
    {byte(c) : c \in {"1", "2", "3", "4", "A", "B", "C", "D", "a", "b", "c", " "}}
        \cup {195, 169}

\* Lines with characters of three and four bytes: a token followed by a
\* wide space, wide spaces alone, the least three- and four-byte characters,
\* and the byte sequences UTF-8 forbids (overlong, surrogate, too large)
WideLines ==
    {<<49, 65, 227, 128, 128, 10>>, <<49, 65, 226, 128, 131, 10>>,
     <<51, 99, 225, 154, 128, 10>>, <<227, 128, 128, 10>>,
     <<226, 129, 159, 10>>, <<226, 128, 139, 10>>,
     <<224, 160, 128, 10>>, <<237, 159, 191, 10>>,
     <<240, 144, 128, 128, 10>>, <<244, 143, 191, 191, 10>>,
     <<224, 128, 128, 10>>, <<237, 160, 128, 10>>,
     <<240, 128, 128, 128, 10>>, <<244, 144, 128, 128, 10>>}

\* Every line of at most MaxLineLen bytes over Alphabet, with its newline,
\* and the lines of WideLines
ParseInputs ==
    {body \o str(<<"\n">>) :
        body \in UNION {[1..k -> Alphabet] : k \in 0..MaxLineLen}}
        \cup WideLines

\* The first line typed at a new game, any of ParseInputs, or end of input
NextParse ==
    /\ parsed = NoCall
    /\ \E raw \in ParseInputs \cup {<<>>} : main_step(raw)

SpecParse == Init /\ [][NextParse]_vars

\* The lines typed during whole games: the nine tokens, one of them in lower
\* case too, a line with a bad column, and U+00E9 alone
ConsoleInputs ==
    {str(<<r, c, "\n">>) : r \in {"1", "2", "3"}, c \in {"A", "B", "C"}}
        \cup {str(<<"3", "c", "\n">>), str(<<"1", "D", "\n">>), <<195, 169, 10>>}

\* main: at each prompt a line of ConsoleInputs, or end of input
NextConsole == \E raw \in ConsoleInputs \cup {<<>>} : main_step(raw)

SpecConsole == Init /\ [][NextConsole]_vars

\* The lines of a player who types move tokens only: the nine tokens
PlayInputs ==
    {str(<<r, c, "\n">>) : r \in {"1", "2", "3"}, c \in {"A", "B", "C"}}

\* main: at each prompt one of the nine tokens, on a free or an occupied tile
NextPlay == \E raw \in PlayInputs : main_step(raw)

\* The step of main that accepts a move: at the prompt, make_move writes the
\* current piece on an empty tile.  Among the steps of NextPlay these are the
\* passes whose token names an empty tile, and one is possible whenever main
\* prompts (the game is then unfinished, so a tile is empty).
LegalStep ==
    /\ pc = "prompt"
    /\ \E row, col \in Idx :
           /\ tiles[row][col] = None
           /\ tiles' = [tiles EXCEPT ![row][col] = current_piece]

\* Runs of main in which, as long as the program prompts, a legal move is
\* eventually typed (main is sequential: a line typed is read and handled)
SpecPlay == Init /\ [][NextPlay]_vars /\ WF_tiles(LegalStep)

\* ------------------------------------------------------------ vocabulary
\* The eight lines of the board, each a set of three <<row, col>> cells
AllLines ==
    {{<<r, c>> : c \in Idx} : r \in Idx} \cup
    {{<<r, c>> : r \in Idx} : c \in Idx} \cup
    {{<<i, i>> : i \in Idx}, {<<i, BOARD_SIZE - 1 - i>> : i \in Idx}}

\* Line l of board t is complete for piece p
LineOf(t, l, p) == \A cell \in l : t[cell[1]][cell[2]] = p

\* Line l of board t is complete for some piece
Complete(t, l) == \E p \in Piece : LineOf(t, l, p)

\* Full scan: piece p holds some complete line of t
HasLine(t, p) == \E l \in AllLines : LineOf(t, l, p)

\* Number of occupied tiles of t
Occupied(t) == Cardinality({cell \in Idx \X Idx : t[cell[1]][cell[2]] # None})

TypeOK ==
    /\ tiles \in Tiles
    /\ current_piece \in Piece
    /\ winner \in Winner \cup {None}
    /\ args \in Coord \X Coord
    /\ okCount \in 0..9
    /\ placed \in Seq(Piece)

\* ---------------------------------------------------------------- claims
\* C1: once the game has an outcome, every make_move call, whatever its row
\* and col, returns GameAlreadyOver and leaves the board, the current piece
\* and the outcome unchanged; the test comes before InvalidPosition and
\* TileNotEmpty.
C1_GameAlreadyOver ==
    [][winner # None => (ret' = GameAlreadyOver /\ UNCHANGED game)]_vars

\* A finished game was called with an out-of-range row and answered
\* GameAlreadyOver.
C1_Witness ==
    /\ winner # None
    /\ ret = GameAlreadyOver
    /\ args[1] >= BOARD_SIZE

\* Re-running update_winner at any pivot of a state whose winner is set
RerunKeepsWinner ==
    winner # None =>
        \A row \in Idx : \A col \in Idx :
            update_winner(tiles, winner, row, col) = winner

\* C2: the outcome is write-once: once winner is Some(w) it is Some(w) in
\* every later state, over successful and failing calls alike, and running
\* update_winner again on a state whose winner is set leaves it as it is.
C2_WriteOnce ==
    /\ [][winner # None => winner' = winner]_vars
    /\ []RerunKeepsWinner

\* A finished game received a further call and its winner is still there.
C2_Witness ==
    /\ winner = Winner_X
    /\ ret = GameAlreadyOver
    /\ okCount = 5

\* One make_move step on an unfinished game, in range, on an empty tile
C3_Step ==
    LET row == args'[1]
        col == args'[2]
    IN  (winner = None /\ row < BOARD_SIZE /\ col < BOARD_SIZE
            /\ tiles[row][col] = None)
        => /\ ret' = Ok
           /\ tiles'[row][col] = current_piece
           /\ \A i \in Idx : \A j \in Idx :
                <<i, j>> # <<row, col>> => tiles'[i][j] = tiles[i][j]
           /\ current_piece' \in Piece
           /\ current_piece' # current_piece

\* C3: on an unfinished game, make_move(row, col) with row < 3, col < 3 and
\* an empty target tile returns Ok, sets that tile to the piece that was
\* current before the call, leaves the other eight tiles unchanged and sets
\* the current piece to the opposite piece.
C3_LegalMove == [][C3_Step]_vars

\* O has just been placed off the main diagonal by a successful call.
C3_Witness ==
    /\ ret = Ok
    /\ args[1] # args[2]
    /\ tiles[args[1]][args[2]] = Piece_O
    /\ current_piece = Piece_X

\* C4: the outcome computed from the lines through the just-played cell
\* agrees with a full scan of all eight lines: the outcome is X-wins (resp.
\* O-wins) exactly when some row, column or diagonal holds three X (resp. O).
C4_PivotAgreesWithScan ==
    /\ winner = Winner_X <=> HasLine(tiles, Piece_X)
    /\ winner = Winner_O <=> HasLine(tiles, Piece_O)

\* X has just won on the anti-diagonal by playing the centre cell.
C4_Witness ==
    /\ ret = Ok
    /\ args = <<1, 1>>
    /\ LineOf(tiles, {<<0, 2>>, <<1, 1>>, <<2, 0>>}, Piece_X)
    /\ winner = Winner_X

\* C5: the outcome is Tie exactly when all nine tiles are occupied and no
\* line is complete; it is never Tie while a tile is empty, and a full board
\* holding a complete line is that piece's win.
C5_TieIffFullNoLine ==
    /\ winner = Winner_Tie <=>
         (Occupied(tiles) = 9 /\ \A l \in AllLines : ~Complete(tiles, l))
    /\ \A p \in Piece :
         (Occupied(tiles) = 9 /\ HasLine(tiles, p)) =>
             winner = (IF p = Piece_X THEN Winner_X ELSE Winner_O)

\* The ninth successful move has just ended the game in a tie.
C5_Witness ==
    /\ winner = Winner_Tie
    /\ ret = Ok
    /\ okCount = 9

\* One make_move step on an unfinished game, in range, on an occupied tile
C6_Step ==
    LET row == args'[1]
        col == args'[2]
    IN  (winner = None /\ row < BOARD_SIZE /\ col < BOARD_SIZE
            /\ tiles[row][col] # None)
        => /\ ret' = [kind |-> "TileNotEmpty", other_piece |-> tiles[row][col],
                      row |-> row, col |-> col]
           /\ UNCHANGED game

\* C6: on an unfinished game, make_move on an in-range occupied tile returns
\* TileNotEmpty carrying the piece that occupies the tile and the same row
\* and col, and leaves the board, the current piece and the outcome
\* unchanged.
C6_TileNotEmpty == [][C6_Step]_vars

\* A call on a tile held by the opponent of the piece to move was refused.
C6_Witness ==
    /\ ret.kind = "TileNotEmpty"
    /\ ret.other_piece # current_piece
    /\ tiles[ret.row][ret.col] = ret.other_piece
    /\ args = <<ret.row, ret.col>>

\* One make_move step on an unfinished game with row or col out of range
C7_Step ==
    LET row == args'[1]
        col == args'[2]
    IN  (winner = None /\ (row >= BOARD_SIZE \/ col >= BOARD_SIZE))
        => /\ ret' = [kind |-> "InvalidPosition", row |-> row, col |-> col]
           /\ UNCHANGED game

\* C7: on an unfinished game, make_move with row >= 3 or col >= 3 returns
\* InvalidPosition carrying exactly the supplied row and col and leaves the
\* board, the current piece and the outcome unchanged.
C7_InvalidPosition == [][C7_Step]_vars

\* An unfinished game refused a call whose row is in range and col is not.
C7_Witness ==
    /\ winner = None
    /\ okCount > 0
    /\ ret.kind = "InvalidPosition"
    /\ ret.row < BOARD_SIZE
    /\ ret.col >= BOARD_SIZE
    /\ ret.row # ret.col

\* The pieces placed so far are X, O, X, O, ...
PlacedAlternates ==
    \A i \in 1..Len(placed) :
        placed[i] = (IF i % 2 = 1 THEN Piece_X ELSE Piece_O)

\* C8: the pieces placed by the successful calls are X, O, X, O, ... in
\* strict alternation starting with X, and a call that returns an error does
\* not change the current piece.
C8_Alternation ==
    /\ []PlacedAlternates
    /\ [][ret'.kind # "Ok" => current_piece' = current_piece]_vars

\* Four pieces have been placed and the last call was refused on a tile.
C8_Witness ==
    /\ Len(placed) >= 4
    /\ ret.kind = "TileNotEmpty"

\* One make_move step counted on the board
C9_Step ==
    /\ ret'.kind = "Ok" => Occupied(tiles') = Occupied(tiles) + 1
    /\ ret'.kind # "Ok" => Occupied(tiles') = Occupied(tiles)
    /\ \A i \in Idx : \A j \in Idx :
         tiles[i][j] # None => tiles'[i][j] = tiles[i][j]

\* C9: the number of occupied tiles equals the number of make_move calls
\* that returned Ok; it grows by exactly 1 on each successful call, is
\* unchanged by each failing call, and no tile is ever cleared or
\* overwritten.
C9_OccupiedCount ==
    /\ [](Occupied(tiles) = okCount)
    /\ [][C9_Step]_vars

\* Three successful calls and then a refused one: three tiles are occupied.
C9_Witness ==
    /\ okCount = 3
    /\ Occupied(tiles) = 3
    /\ ret.kind = "TileNotEmpty"

\* The lines complete after a step and not before it
NewLines == {l \in AllLines : Complete(tiles', l) /\ ~Complete(tiles, l)}

\* C10 as stated: a successful move newly completes at most one winning
\* line.
C10_AtMostOneLine ==
    [][ret'.kind = "Ok" => Cardinality(NewLines) <= 1]_vars

\* C10, amended: a successful move newly completes at most two winning
\* lines; each of them passes through the just-played cell and holds the
\* piece just placed.
C10_AtMostTwoLines ==
    [][ret'.kind = "Ok" =>
          /\ Cardinality(NewLines) <= 2
          /\ \A l \in NewLines :
                /\ <<args'[1], args'[2]>> \in l
                /\ LineOf(tiles', l, current_piece)]_vars

\* A successful move has left two complete lines on the board at once.
C10_Witness ==
    /\ ret = Ok
    /\ Cardinality({l \in AllLines : Complete(tiles, l)}) = 2

\* The values a make_move call can hand back to its caller
Returned == {"NoCall", "Ok", "GameAlreadyOver", "InvalidPosition", "TileNotEmpty"}

\* C11: make_move never panics, whatever row and col it is given: every call
\* ends in Ok or in an Err value, and update_winner is only reached with
\* row < 3 and col < 3, where no index is out of bounds, rows - row - 1 does
\* not go below zero and the size assertion holds.
C11_NoPanic ==
    /\ [](ret.kind \in Returned)
    /\ [][ret'.kind = "Ok" =>
            /\ args'[1] < BOARD_SIZE /\ args'[2] < BOARD_SIZE
            /\ BOARD_SIZE - args'[1] - 1 >= 0
            /\ ~update_winner_panics(args'[1], args'[2])]_vars

\* A game under way refused a call whose row and col are both out of range.
C11_Witness ==
    /\ okCount > 0
    /\ ret.kind = "InvalidPosition"
    /\ args[1] >= BOARD_SIZE
    /\ args[2] >= BOARD_SIZE

\* C12: Game::new returns a state in which all nine tiles are empty, the
\* current piece is X, the outcome is absent and is_finished() is false.
C12_New ==
    ret = NoCall =>
        /\ \A i \in Idx : \A j \in Idx : tiles[i][j] = None
        /\ current_piece = Piece_X
        /\ winner = None
        /\ ~is_finished(winner)

\* The game as constructed, before any call.
C12_Witness ==
    /\ ret = NoCall
    /\ okCount = 0
    /\ Occupied(tiles) = 0

\* The accessors of Game, by the kind of value they return
AccessorKinds == {"is_finished", "winner", "current_piece", "tiles"}

\* C13: is_finished() is true exactly when the winner is present; the
\* accessors is_finished, winner, current_piece and tiles change nothing,
\* and the board, the current piece and the outcome are modified only by a
\* make_move call that returns Ok.
C13_Accessors ==
    /\ [](ret.kind = "is_finished" => (ret.value <=> winner # None))
    /\ [](ret.kind = "winner" => ret.value = winner)
    /\ [][ret'.kind \in AccessorKinds => UNCHANGED game]_vars
    /\ [][game' # game => ret'.kind = "Ok"]_vars

\* is_finished() has answered true on a game that ended in a tie.
C13_Witness ==
    /\ ret.kind = "is_finished"
    /\ ret.value = TRUE
    /\ winner = Winner_Tie

\* ------------------------------------------------- claims on src/main.rs
\* The move tokens: a digit 1-3, then a letter A-C in either case
Tokens == {<<d, l>> : d \in 49..51, l \in (65..67) \cup (97..99)}

IsToken(s) == s \in Tokens

\* A string with its ASCII letters in upper case
to_upper(s) == [i \in 1..Len(s) |-> IF s[i] \in 97..122 THEN s[i] - 32 ELSE s[i]]

\* C14: parse_move accepts exactly the tokens made of a digit 1-3 and a
\* letter A-C in either case, maps them to row = digit - 1 and col = 0, 1, 2
\* for A/a, B/b, C/c, and rejects every other input with an Err, so that
\* every accepted result has row < 3 and col < 3.
C14_ParseExact ==
    parsed # NoCall =>
        /\ parsed.kind = "Ok" <=> IsToken(line)
        /\ IsToken(line) =>
              parsed = [kind |-> "Ok", row |-> line[1] - 49,
                        col |-> (line[2] % 32) - 1]
        /\ ~IsToken(line) => parsed.kind = "Err"
        /\ parsed.kind = "Ok" => parsed.row < 3 /\ parsed.col < 3

\* C15: every input line (of UTF-8 text) that is not a valid move token makes
\* parse_move
\* return an InvalidMove error and prompt_move prompt again; no malformed
\* line ends the program or makes it panic.
C15_MalformedReprompts ==
    (stdin_line # <<>> /\ valid_utf8(stdin_line)
        /\ ~IsToken(trim_right(stdin_line))) =>
        /\ parsed.kind = "Err"
        /\ out.kind = "invalid_move"
        /\ pc = "prompt"
        /\ exit_code = None

\* C16: when parse_move rejects a line, the InvalidMove value it returns, and
\* that prompt_move prints, carries the whole token as entered, trailing
\* whitespace trimmed, on each of the three rejection paths.
C16_EchoesWholeToken ==
    parsed.kind = "Err" =>
        /\ parsed.invalid = line
        /\ out = [kind |-> "invalid_move", text |-> line]

\* C17: at every prompt end of input makes the program exit with code 0
\* without changing the game or printing a result; the program ends only by
\* end of input or by the game becoming finished, and then it prints the
\* final board and the outcome.
C17_Termination ==
    /\ [][(pc = "prompt" /\ stdin_line' = <<>>) =>
            /\ pc' = "exited"
            /\ exit_code' = 0
            /\ UNCHANGED game
            /\ out' = out]_vars
    /\ [](pc \in {"prompt", "finished", "exited"})
    /\ [](pc = "exited" => (winner = None /\ out.kind # "result"))
    /\ [](pc = "finished" <=> winner # None)
    /\ [](pc = "finished" =>
            /\ exit_code = 0
            /\ out.kind = "result"
            /\ out.tiles = tiles
            /\ out.text = (IF winner = Winner_X THEN "x wins!"
                           ELSE IF winner = Winner_O THEN "o wins!"
                           ELSE "Tie!"))

\* C18: in the console loop make_move never returns GameAlreadyOver or
\* InvalidPosition, neither unreachable!() of main is reached, and
\* winner().expect(...) after the loop does not panic; the only engine error
\* the loop sees is TileNotEmpty.
C18_LoopErrors ==
    /\ ret.kind \in {"NoCall", "Ok", "TileNotEmpty"}
    /\ out.kind = "panic" => out.at \in {"read_line", "parse_move"}
    /\ pc = "finished" => winner # None

\* The loop has reported an occupied tile and prompts again.
C18_Witness ==
    /\ ret.kind = "TileNotEmpty"
    /\ out.kind = "tile_not_empty"
    /\ pc = "prompt"
    /\ okCount >= 2

\* The permutations of the four line checks
Perms4 == {p \in [1..4 -> 1..4] : \A i \in 1..4 : \A j \in 1..4 : p[i] = p[j] => i = j}

\* The results of the four line checks of update_winner at pivot (row, col)
line_checks(t, row, col) ==
    <<check_winner(tiles_row(t, row)),
      check_winner(tiles_col(t, col)),
      check_winner(tiles_diagonal_1(t, row, col)),
      check_winner(tiles_diagonal_2(t, row, col))>>

\* update_winner with its four line checks, of results c, made in the order p
update_winner_in_order(t, w, c, p) ==
    LET w1 == or_else(or_else(or_else(or_else(w, c[p[1]]), c[p[2]]), c[p[3]]), c[p[4]])
    IN  or_else(w1, IF all_some(t) THEN Winner_Tie ELSE None)

\* C19: the outcome update_winner sets does not depend on the order of its
\* four line checks: in the state a successful move (on a game without
\* outcome) has just produced, each permutation of the four checks at the
\* cell played gives the outcome that the order row, column, diagonal 1,
\* diagonal 2 gave.
C19_OrderImmaterial ==
    ret.kind = "Ok" =>
        \A c \in {line_checks(tiles, args[1], args[2])} :
            \A p \in Perms4 :
                update_winner_in_order(tiles, None, c, p) = winner

\* X has won by playing the centre, completing both diagonals at once.
C19_Witness ==
    /\ ret = Ok
    /\ args = <<1, 1>>
    /\ winner = Winner_X
    /\ LineOf(tiles, {<<0, 0>>, <<1, 1>>, <<2, 2>>}, Piece_X)
    /\ LineOf(tiles, {<<0, 2>>, <<1, 1>>, <<2, 0>>}, Piece_X)

\* Parsing the printed position of any tile gives the tile back
PositionsRoundTrip ==
    \A row \in Idx : \A col \in Idx :
        parse_move(format_position(row, col)) = [kind |-> "Ok", row |-> row, col |-> col]

\* Printing the position any token parses to gives the token in upper case
TokensRoundTrip ==
    \A token \in Tokens :
        LET pm == parse_move(token)
        IN  pm.kind = "Ok" /\ format_position(pm.row, pm.col) = to_upper(token)

\* C20: the position printed for TileNotEmpty round-trips with parse_move:
\* parsing the printed position of any (row, col) of the board gives back
\* (row, col), the printed position of any valid token is the token with its
\* letter in upper case, and the piece named is the one on the tile.
C20_RoundTrip ==
    /\ PositionsRoundTrip
    /\ TokensRoundTrip
    /\ out.kind = "tile_not_empty" =>
          /\ out.position = to_upper(line)
          /\ parse_move(out.position) = [kind |-> "Ok", row |-> args[1], col |-> args[2]]
          /\ out.piece = (IF tiles[args[1]][args[2]] = Piece_X THEN "x" ELSE "o")
          /\ tiles[args[1]][args[2]] # None

\* "3c" was typed by X on a tile O holds, and the report names 3C and o.
C20_Witness ==
    /\ out.kind = "tile_not_empty"
    /\ line = <<51, 99>>
    /\ out.position = <<51, 67>>
    /\ out.piece = "o"
    /\ current_piece = Piece_X

\* ------------------------------------------------------ further invariants
\* Number of tiles of t holding piece p
CountOf(t, p) == Cardinality({cell \in Idx \X Idx : t[cell[1]][cell[2]] = p})

\* C22: the current piece is determined by the board: it is X exactly when
\* the number of occupied tiles is even; X and O hold equally many tiles
\* when X is to move, and X holds exactly one more when O is to move.
C22_TurnFromBoard ==
    /\ current_piece = Piece_X <=> Occupied(tiles) % 2 = 0
    /\ current_piece = Piece_X =>
          CountOf(tiles, Piece_X) = CountOf(tiles, Piece_O)
    /\ current_piece = Piece_O =>
          CountOf(tiles, Piece_X) = CountOf(tiles, Piece_O) + 1

\* O is to move on a board of three X and two O, after a refused call.
C22_Witness ==
    /\ current_piece = Piece_O
    /\ CountOf(tiles, Piece_X) = 3
    /\ CountOf(tiles, Piece_O) = 2
    /\ ret.kind = "TileNotEmpty"

\* C23: a win is credited to the piece that made the finishing move: when
\* the outcome is X-wins the current piece is O and the last piece placed,
\* on the tile of the last successful call, is X; likewise for O-wins.
C23_WinnerIsMover ==
    /\ winner = Winner_X =>
          /\ current_piece = Piece_O
          /\ placed[Len(placed)] = Piece_X
    /\ winner = Winner_O =>
          /\ current_piece = Piece_X
          /\ placed[Len(placed)] = Piece_O
    /\ (ret = Ok /\ winner \in {Winner_X, Winner_O}) =>
          tiles[args[1]][args[2]] = (IF winner = Winner_X THEN Piece_X ELSE Piece_O)

\* O has just won with its third piece.
C23_Witness ==
    /\ winner = Winner_O
    /\ ret = Ok
    /\ okCount = 6
    /\ current_piece = Piece_X

\* C24: no reachable board holds a complete line of X and a complete line
\* of O at once, and no unfinished state holds a complete line.
C24_NoRivalLines ==
    /\ ~(HasLine(tiles, Piece_X) /\ HasLine(tiles, Piece_O))
    /\ winner = None => \A l \in AllLines : ~Complete(tiles, l)

\* X has completed a column while O holds two tiles of another line.
C24_Witness ==
    /\ \E c \in Idx : LineOf(tiles, {<<r, c>> : r \in Idx}, Piece_X)
    /\ ~HasLine(tiles, Piece_O)
    /\ winner = Winner_X
    /\ okCount = 5

\* One make_move step: Ok exactly on a legal move
C25_Step ==
    LET row == args'[1]
        col == args'[2]
    IN  ret'.kind = "Ok" <=>
            /\ winner = None
            /\ row < BOARD_SIZE
            /\ col < BOARD_SIZE
            /\ tiles[row][col] = None

\* C25: an unfinished game always has a legal move: a state with no outcome
\* has an empty tile; and make_move(row, col) returns Ok exactly when the
\* game is unfinished, row < 3, col < 3 and the tile is empty.
C25_LegalMoveExists ==
    /\ [](winner = None => \E i \in Idx : \E j \in Idx : tiles[i][j] = None)
    /\ [][C25_Step]_vars

\* Eight tiles are occupied, the game is unfinished: one legal move is left.
C25_Witness ==
    /\ winner = None
    /\ Occupied(tiles) = 8
    /\ ret = Ok

\* C21: every game finishes after at least 5 and at most 9 successful moves:
\* there are never more than 9 successful calls, the game is finished after
\* the ninth, it is never finished after fewer than 5, and when legal moves
\* keep being typed the console loop eventually ends with a result.
C21_FiveToNine ==
    /\ [](okCount <= 9)
    /\ [](okCount = 9 => winner # None)
    /\ [](winner # None => okCount >= 5)
    /\ <>(pc = "finished" /\ out.kind = "result")

\* The loop has ended with a result after the fifth successful move.
C21_Witness ==
    /\ pc = "finished"
    /\ out.kind = "result"
    /\ okCount = 5
====
